---- MODULE Spec2Model ----
(***************************************************************************)
(* State-machine model of monai/networks/nets/spade_autoencoderkl.py:      *)
(* SPADEResBlock, SPADEDecoder and SPADEAutoencoderKL.                     *)
(*                                                                         *)
(* A layer is a record of its declared widths; a tensor is a record of its *)
(* shape and of one representative element value.  The convolution,        *)
(* attention, upsampling and normalisation primitives are the external     *)
(* collaborators of the file: they act on the shape as their shape         *)
(* contracts say and are otherwise uninterpreted (the value of a decoded   *)
(* tensor is the record of what was applied to what).                      *)
(***************************************************************************)
EXTENDS Integers, Sequences, FiniteSets, TLC

VARIABLES
    args,       \* the arguments of the last SPADEAutoencoderKL(...) call
    status,     \* "unbuilt" | "built" | "ValueError" | "IndexError"
    net,        \* the attributes of the constructed SPADEAutoencoderKL
    resblock,   \* the SPADEResBlock constructed on its own, with its arguments
    pc,         \* "idle" | "decoder": inside SPADEDecoder.forward's loop or not
    call,       \* the method running or last run, with its arguments
    locals,     \* z_mu, z_sigma, eps and z of the running call
    x,          \* SPADEDecoder.forward's x
    idx,        \* the position of SPADEDecoder.forward's loop in self.blocks
    applied,    \* the block calls SPADEDecoder.forward has made so far
    result,     \* what the last finished call returned or raised
    earlier     \* an earlier reconstruct call: its arguments and its result

vars == <<args, status, net, resblock, pc, call, locals, x, idx, applied,
          result, earlier>>

----------------------------------------------------------------------------
(* Bounds of the model. *)

MaxLevels == 3          \* longest channels / attention_levels / num_res_blocks
MaxResBlocks == 1       \* largest res-block count the constructor is given
MaxBatch == 2           \* largest batch size
MaxNoise == 1           \* torch.randn_like draws values in -MaxNoise..MaxNoise

\* Python's None.
None == -1

ChannelWidths == {32, 50, 64}
GroupCounts == {16, 32}

RECURSIVE SeqsUpTo(_, _)
\* All sequences over S of length 0..n.
SeqsUpTo(S, n) ==
    IF n = 0 THEN {<<>>}
    ELSE LET shorter == SeqsUpTo(S, n - 1)
         IN  shorter \cup {Append(s, e) : s \in {t \in shorter : Len(t) = n - 1}, e \in S}

\* A decoder that forgets to reverse its schedules.
Reversed_Forgotten(s) == s

\* list(reversed(s))
Reversed(s) == [i \in 1..Len(s) |-> s[Len(s) + 1 - i]]

----------------------------------------------------------------------------
(* SPADEResBlock.__init__ *)

SPADEResBlock(in_channels, out_channels) ==
    LET self_out == IF out_channels = None THEN in_channels ELSE out_channels
    IN  [type         |-> "SPADEResBlock",
         in_channels  |-> in_channels,
         out_channels |-> self_out,
         norm1_nc     |-> in_channels,
         conv1        |-> <<in_channels, self_out>>,
         norm2_nc     |-> out_channels,
         conv2        |-> <<self_out, self_out>>,
         nin_shortcut |-> IF in_channels # self_out THEN <<in_channels, self_out>>
                          ELSE <<>>]

\* The other layer types of the decoder, by their declared widths.
Convolution(in_channels, out_channels) ==
    [type |-> "Convolution", in_channels |-> in_channels, out_channels |-> out_channels]

SpatialAttentionBlock(num_channels) ==
    [type |-> "SpatialAttentionBlock", in_channels |-> num_channels,
     out_channels |-> num_channels]

\* Upsample(mode="nontrainable", scale_factor=2.0, post_conv=Convolution(c, c))
Upsample(in_channels, out_channels) ==
    [type |-> "Upsample", in_channels |-> in_channels, out_channels |-> out_channels]

GroupNorm(num_groups, num_channels) ==
    [type |-> "GroupNorm", in_channels |-> num_channels, out_channels |-> num_channels,
     num_groups |-> num_groups]

----------------------------------------------------------------------------
(* SPADEDecoder.__init__ *)

RECURSIVE LevelResBlocks(_, _, _, _)
\* The inner loop `for _ in range(reversed_num_res_blocks[i])`: n res blocks, the
\* first block_in_ch -> block_out_ch and the others block_out_ch -> block_out_ch,
\* each followed by an attention block when the level's flag is set.
LevelResBlocks(n, block_in_ch, block_out_ch, attention) ==
    IF n <= 0 THEN <<>>
    ELSE <<SPADEResBlock(block_in_ch, block_out_ch)>>
         \o (IF attention THEN <<SpatialAttentionBlock(block_out_ch)>> ELSE <<>>)
         \o LevelResBlocks(n - 1, block_out_ch, block_out_ch, attention)

\* An upsampling stage after the last level too.
LevelUpsample_Always(is_final_block, block_in_ch) == <<Upsample(block_in_ch, block_in_ch)>>

\* `if not is_final_block:` an upsampling stage of the current width.
LevelUpsample(is_final_block, block_in_ch) ==
    IF ~is_final_block THEN <<Upsample(block_in_ch, block_in_ch)>> ELSE <<>>

RECURSIVE DecoderLevels(_, _, _, _, _, _)
\* The loop `for i in range(len(reversed_block_out_channels))`, from level i on
\* (levels are 1-based here).  prev_out_ch is block_out_ch and carried_in_ch is
\* block_in_ch as the previous iteration left them.  The result is the blocks
\* appended and the value of block_in_ch after the loop.
DecoderLevels(i, prev_out_ch, carried_in_ch, rev_channels, rev_attention, rev_num_res) ==
    IF i > Len(rev_channels) THEN [blocks |-> <<>>, block_in_ch |-> carried_in_ch]
    ELSE LET block_out_ch == rev_channels[i]
             is_final_block == (i = Len(rev_channels))
             n == rev_num_res[i]
             block_in_ch == IF n > 0 THEN block_out_ch ELSE prev_out_ch
             rest == DecoderLevels(i + 1, block_out_ch, block_in_ch,
                                   rev_channels, rev_attention, rev_num_res)
         IN  [blocks |-> LevelResBlocks(n, prev_out_ch, block_out_ch, rev_attention[i])
                         \o LevelUpsample(is_final_block, block_in_ch)
                         \o rest.blocks,
              block_in_ch |-> rest.block_in_ch]

NonLocalBlocks(with_nonlocal_attn, width) ==
    IF with_nonlocal_attn
    THEN <<SPADEResBlock(width, width), SpatialAttentionBlock(width),
           SPADEResBlock(width, width)>>
    ELSE <<>>

\* self.blocks of SPADEDecoder(channels, in_channels, out_channels, ...), for a
\* non-empty channels.
SPADEDecoder(channels, in_channels, out_channels, num_res_blocks, norm_num_groups, attention_levels, with_nonlocal_attn) ==
    LET reversed_block_out_channels == Reversed(channels)
        levels == DecoderLevels(1, reversed_block_out_channels[1],
                                reversed_block_out_channels[1],
                                reversed_block_out_channels,
                                Reversed(attention_levels), Reversed(num_res_blocks))
    IN  <<Convolution(in_channels, reversed_block_out_channels[1])>>
        \o NonLocalBlocks(with_nonlocal_attn, reversed_block_out_channels[1])
        \o levels.blocks
        \o <<GroupNorm(norm_num_groups, levels.block_in_ch),
             Convolution(levels.block_in_ch, out_channels)>>

----------------------------------------------------------------------------
(* SPADEAutoencoderKL.__init__ *)

\* ensure_tuple_rep(n, dim): n repeated dim times.
ensure_tuple_rep(n, dim) == [i \in 1..dim |-> n]

\* A check of the first channel width only.
NotAllMultiples_FirstOnly(channels, norm_num_groups) ==
    Len(channels) > 0 /\ (channels[1] % norm_num_groups) # 0

\* `any((out_channel % norm_num_groups) != 0 for out_channel in channels)`
NotAllMultiples(channels, norm_num_groups) ==
    \E i \in 1..Len(channels) : (channels[i] % norm_num_groups) # 0

\* num_res_blocks after `if isinstance(num_res_blocks, int): ...`.  The argument
\* is [is_int, n, seq]: an integer n or a sequence seq.
BroadcastNumResBlocks(num_res_blocks, channels) ==
    IF num_res_blocks.is_int
    THEN ensure_tuple_rep(num_res_blocks.n, Len(channels))
    ELSE num_res_blocks.seq

\* The three checks at the head of __init__, in order: TRUE when one raises.
RaisesValueError(a) ==
    \/ NotAllMultiples(a.channels, a.norm_num_groups)
    \/ Len(a.channels) # Len(a.attention_levels)
    \/ Len(BroadcastNumResBlocks(a.num_res_blocks, a.channels)) # Len(a.channels)

NoNet == [channels |-> <<>>, attention_levels |-> <<>>, num_res_blocks |-> <<>>,
          norm_num_groups |-> 0, latent_channels |-> 0, in_channels |-> 0,
          out_channels |-> 0, label_nc |-> 0, spatial_dims |-> 0, blocks |-> <<>>]

\* SPADEAutoencoderKL(**a): the exception raised, or the attributes of the model.
\* An empty channels passes the checks and fails on reversed_block_out_channels[0].
SPADEAutoencoderKL(a) ==
    IF RaisesValueError(a) THEN [status |-> "ValueError", net |-> NoNet]
    ELSE IF Len(a.channels) = 0 THEN [status |-> "IndexError", net |-> NoNet]
    ELSE LET num_res_blocks == BroadcastNumResBlocks(a.num_res_blocks, a.channels)
         IN  [status |-> "built",
              net |-> [channels         |-> a.channels,
                       attention_levels |-> a.attention_levels,
                       num_res_blocks   |-> num_res_blocks,
                       norm_num_groups  |-> a.norm_num_groups,
                       latent_channels  |-> a.latent_channels,
                       in_channels      |-> a.in_channels,
                       out_channels     |-> a.out_channels,
                       label_nc         |-> a.label_nc,
                       spatial_dims     |-> a.spatial_dims,
                       blocks |-> SPADEDecoder(a.channels, a.latent_channels,
                                               a.out_channels, num_res_blocks,
                                               a.norm_num_groups, a.attention_levels,
                                               a.with_decoder_nonlocal_attn)]]

----------------------------------------------------------------------------
(* The arguments the constructors are called with. *)

IntArg(n) == [is_int |-> TRUE, n |-> n, seq |-> <<>>]
SeqArg(s) == [is_int |-> FALSE, n |-> 0, seq |-> s]

Filled(v, n) == [i \in 1..n |-> v]

\* attention_levels: every pattern of the length of channels, and one sequence
\* of every other length.
AttentionArgs(channels) ==
    {s \in SeqsUpTo(BOOLEAN, MaxLevels) : Len(s) = Len(channels)}
    \cup {Filled(FALSE, n) : n \in 0..MaxLevels}

\* num_res_blocks: an integer, every sequence of counts of the length of channels,
\* and one sequence of every other length.
NumResBlocksArgs(channels) ==
    {IntArg(n) : n \in 0..MaxResBlocks}
    \cup {SeqArg(s) : s \in {t \in SeqsUpTo(0..MaxResBlocks, MaxLevels) :
                                Len(t) = Len(channels)}}
    \cup {SeqArg(Filled(1, n)) : n \in 0..MaxLevels}

NoArgs == [channels |-> <<>>, attention_levels |-> <<>>, num_res_blocks |-> IntArg(0),
           norm_num_groups |-> 0, latent_channels |-> 0, in_channels |-> 0,
           out_channels |-> 0, label_nc |-> 0, spatial_dims |-> 0,
           with_decoder_nonlocal_attn |-> FALSE]

CtorArgs(channels, attention_levels, num_res_blocks, norm_num_groups, nonlocal) ==
    [channels |-> channels, attention_levels |-> attention_levels,
     num_res_blocks |-> num_res_blocks, norm_num_groups |-> norm_num_groups,
     latent_channels |-> 3, in_channels |-> 1, out_channels |-> 1, label_nc |-> 2,
     spatial_dims |-> 2, with_decoder_nonlocal_attn |-> nonlocal]

\* The constructor's default arguments.
DefaultArgs ==
    [channels |-> <<32, 64, 64, 64>>, attention_levels |-> <<FALSE, FALSE, TRUE, TRUE>>,
     num_res_blocks |-> SeqArg(<<2, 2, 2, 2>>), norm_num_groups |-> 32,
     latent_channels |-> 3, in_channels |-> 1, out_channels |-> 1, label_nc |-> 2,
     spatial_dims |-> 2, with_decoder_nonlocal_attn |-> TRUE]

\* The arguments the model is constructed with: the defaults, or schedules of up
\* to MaxLevels levels.
ConstructorArgs ==
    {DefaultArgs}
    \cup UNION {UNION {{CtorArgs(channels, attention, nrb, g, nonlocal) :
                          g \in GroupCounts, nonlocal \in BOOLEAN} :
                        attention \in AttentionArgs(channels),
                        nrb \in NumResBlocksArgs(channels)} :
                 channels \in SeqsUpTo(ChannelWidths, MaxLevels)}

NoBlock == [built |-> FALSE, in_channels |-> 0, out_channels |-> 0, block |-> <<>>]

----------------------------------------------------------------------------
(* Tensor elements.  A float is [k, m, e, lv]: NaN, an infinity, or, for      *)
(* k = "fin", the number m + e * exp(lv / 2) with m, e, lv integers (lv is 0   *)
(* when e is 0).  One representative element stands for a tensor's data: the  *)
(* latent operations of the file are all element-wise.                        *)

Fin(n) == [k |-> "fin", m |-> n, e |-> 0, lv |-> 0]
NaN == [k |-> "nan", m |-> 0, e |-> 0, lv |-> 0]
PInf == [k |-> "pinf", m |-> 0, e |-> 0, lv |-> 0]
NInf == [k |-> "ninf", m |-> 0, e |-> 0, lv |-> 0]

\* exp(n / 2) in float32, for an integer n, is finite and non-zero exactly for
\* Float32ExpMin <= n <= Float32ExpMax: above it overflows to inf, below it
\* underflows to 0.
Float32ExpMax == 177
Float32ExpMin == -207

ClampMin == -30
ClampMax == 20

\* torch.clamp(v, lo, hi) = min(max(v, lo), hi) on a plain number; NaN propagates.
clamp(v, lo, hi) ==
    CASE v.k = "nan"  -> NaN
      [] v.k = "pinf" -> Fin(hi)
      [] v.k = "ninf" -> Fin(lo)
      [] OTHER        -> Fin(IF v.m < lo THEN lo ELSE IF v.m > hi THEN hi ELSE v.m)

\* torch.exp(z_log_var / 2) on a plain number.
exp_half(v) ==
    CASE v.k = "nan"  -> NaN
      [] v.k = "pinf" -> PInf
      [] v.k = "ninf" -> Fin(0)
      [] OTHER        -> IF v.m > Float32ExpMax THEN PInf
                         ELSE IF v.m < Float32ExpMin THEN Fin(0)
                         ELSE [k |-> "fin", m |-> 0, e |-> 1, lv |-> v.m]

\* eps * s for a finite noise value eps (an integer).
Mul(eps, s) ==
    CASE s.k = "nan"  -> NaN
      [] s.k = "pinf" -> IF eps > 0 THEN PInf ELSE IF eps < 0 THEN NInf ELSE NaN
      [] s.k = "ninf" -> IF eps > 0 THEN NInf ELSE IF eps < 0 THEN PInf ELSE NaN
      [] OTHER        -> [k |-> "fin", m |-> eps * s.m, e |-> eps * s.e,
                          lv |-> IF eps * s.e = 0 THEN 0 ELSE s.lv]

\* a + b, for a plain number a.
Add(a, b) ==
    CASE a.k = "nan" \/ b.k = "nan" -> NaN
      [] a.k = "pinf" -> IF b.k = "ninf" THEN NaN ELSE PInf
      [] a.k = "ninf" -> IF b.k = "pinf" THEN NaN ELSE NInf
      [] b.k # "fin"  -> b
      [] OTHER        -> [k |-> "fin", m |-> a.m + b.m, e |-> b.e, lv |-> b.lv]

----------------------------------------------------------------------------
(* Tensors: [shape, data], shape = <<batch, channels, spatial sizes...>>. *)

Tensor(shape, data) == [shape |-> shape, data |-> data]
NoTensor == [shape |-> <<>>, data |-> <<>>]

Batch(t) == t.shape[1]
Channels(t) == t.shape[2]
Spatial(t) == SubSeq(t.shape, 3, Len(t.shape))

RECURSIVE Halved(_, _)
\* s halved n times, rounding down.
Halved(s, n) == IF n = 0 THEN s ELSE Halved(s \div 2, n - 1)

\* self.encoder(x): the Encoder of monai.networks.nets.autoencoderkl mirrors the
\* decoder: a stride-2 downsampling after every level but the last, and
\* latent_channels output channels.  Its data is the image it was given.
Encoder(n, t) ==
    Tensor(<<Batch(t), n.latent_channels>>
           \o [i \in 1..Len(Spatial(t)) |-> Halved(Spatial(t)[i], Len(n.channels) - 1)],
           t.data)

\* What the encoder followed by the two 1x1 quantisation convolutions makes of
\* image k under the model's parameters: a mean and a raw log-variance.
ImageMu == <<Fin(0), Fin(3), Fin(-2), Fin(1), Fin(0), Fin(2), Fin(-1), Fin(1)>>
ImageLogVar == <<Fin(0), Fin(-31), Fin(25), Fin(-300), Fin(400), NaN, NInf, PInf>>

quant_conv_mu(h) == Tensor(h.shape, ImageMu[h.data])
quant_conv_log_sigma(h) == Tensor(h.shape, ImageLogVar[h.data])

\* The log-variance left unclamped.
ClampLogVar_Missing(z_log_var) == z_log_var

\* z_log_var = torch.clamp(z_log_var, -30.0, 20.0)
ClampLogVar(z_log_var) == Tensor(z_log_var.shape, clamp(z_log_var.data, ClampMin, ClampMax))

\* SPADEAutoencoderKL.encode, with its intermediate values.
encode(n, t) ==
    LET h == Encoder(n, t)
        z_mu == quant_conv_mu(h)
        raw == quant_conv_log_sigma(h)
        z_log_var == ClampLogVar(raw)
        z_sigma == Tensor(z_log_var.shape, exp_half(z_log_var.data))
    IN  [z_mu |-> z_mu, raw_log_var |-> raw, z_log_var |-> z_log_var, z_sigma |-> z_sigma]

\* Noise added without scaling it by sigma.
sampling_Unscaled(z_mu, z_sigma, eps) == Tensor(z_mu.shape, Add(z_mu.data, Fin(eps)))

\* SPADEAutoencoderKL.sampling, eps being what torch.randn_like returned.
sampling(z_mu, z_sigma, eps) ==
    Tensor(z_mu.shape, Add(z_mu.data, Mul(eps, z_sigma.data)))

\* A reconstruct that decodes a sample.
ReconstructLatent_Sampled(enc, eps) ==
    [z |-> Tensor(enc.z_mu.shape, Add(enc.z_mu.data, Mul(eps, enc.z_sigma.data))),
     draws |-> 0]

\* The latent reconstruct decodes: `z_mu, _ = self.encode(x)`.  eps is what the
\* noise source would yield if asked.
ReconstructLatent(enc, eps) == [z |-> enc.z_mu, draws |-> 0]

\* The latent forward and encode_stage_2_inputs use: `self.sampling(z_mu, z_sigma)`.
SampledLatent(enc, eps) == [z |-> sampling(enc.z_mu, enc.z_sigma, eps), draws |-> 1]

\* self.post_quant_conv(z): a 1x1 convolution, latent_channels -> latent_channels.
post_quant_conv(z) == Tensor(z.shape, [f |-> 0, of |-> z.data, seg |-> 0])

----------------------------------------------------------------------------
(* SPADEDecoder.forward *)

\* Every block called with seg.
TakesSeg_Always(block) == TRUE

\* `isinstance(block, SPADEResBlock)`: whether the block is called with seg.
TakesSeg(block) == block.type = "SPADEResBlock"

\* The shape a block returns: the declared output width, and twice the spatial
\* sizes for an upsampling stage.
BlockShape(block, t) ==
    <<Batch(t), block.out_channels>>
    \o [i \in 1..Len(Spatial(t)) |->
            IF block.type = "Upsample" THEN 2 * Spatial(t)[i] ELSE Spatial(t)[i]]

\* block(x, seg) or block(x): block number i applied to t; s is the id of the
\* segmentation passed, 0 when none is.
BlockCall(i, block, t, s) == Tensor(BlockShape(block, t), [f |-> i, of |-> t.data, seg |-> s])

\* A block raises on an input whose channel count is not its declared input width.
BlockRaises(block, t) == Channels(t) # block.in_channels

NoEnc == [z_mu |-> NoTensor, raw_log_var |-> NoTensor, z_log_var |-> NoTensor,
          z_sigma |-> NoTensor]
NoCall == [method |-> "none", x |-> NoTensor, seg |-> NoTensor, z |-> NoTensor,
           z_mu |-> NoTensor, z_sigma |-> NoTensor]
NoLocals == [enc |-> NoEnc, draws |-> 0, eps |-> 0, z |-> NoTensor]
NoResult == [status |-> "none", out |-> <<>>]
NoEarlier == [set |-> FALSE, x |-> NoTensor, seg |-> NoTensor, result |-> NoResult]

----------------------------------------------------------------------------
(* Construction. *)

Init ==
    /\ args = NoArgs
    /\ status = "unbuilt"
    /\ net = NoNet
    /\ resblock = NoBlock
    /\ pc = "idle"
    /\ call = NoCall
    /\ locals = NoLocals
    /\ x = NoTensor
    /\ idx = 0
    /\ applied = <<>>
    /\ result = NoResult
    /\ earlier = NoEarlier

\* model = SPADEAutoencoderKL(...).  A run constructs one object: a model or a
\* res block on its own.
Construct ==
    /\ status = "unbuilt"
    /\ ~resblock.built
    /\ \E a \in ConstructorArgs :
         LET built == SPADEAutoencoderKL(a)
         IN  /\ args' = a
             /\ status' = built.status
             /\ net' = built.net
    /\ UNCHANGED <<resblock, pc, call, locals, x, idx, applied, result, earlier>>

\* block = SPADEResBlock(in_channels=..., out_channels=...)
NewSPADEResBlock ==
    /\ status = "unbuilt"
    /\ ~resblock.built
    /\ \E in_channels \in {32, 64}, out_channels \in {None, 0, 32, 64} :
          resblock' = [built |-> TRUE, in_channels |-> in_channels,
                       out_channels |-> out_channels,
                       block |-> SPADEResBlock(in_channels, out_channels)]
    /\ UNCHANGED <<args, status, net, pc, call, locals, x, idx, applied, result, earlier>>

Next == Construct \/ NewSPADEResBlock

Spec == Init /\ [][Next]_vars

----------------------------------------------------------------------------
(* Calls on a constructed model. *)

SpatialSizes == {5, 8, 64}
SegIds == {1, 2}
Noise == (0 - MaxNoise)..MaxNoise
Images == 1..Len(ImageMu)

\* The models the calls are made on.  The first is the configuration of the
\* end-to-end scenario.
RunArgs ==
    {[channels |-> <<32, 64>>, attention_levels |-> <<FALSE, FALSE>>,
      num_res_blocks |-> IntArg(2), norm_num_groups |-> 32, latent_channels |-> 3,
      in_channels |-> 1, out_channels |-> 1, label_nc |-> 2, spatial_dims |-> 2,
      with_decoder_nonlocal_attn |-> TRUE],
     [channels |-> <<32, 64, 64>>, attention_levels |-> <<FALSE, FALSE, TRUE>>,
      num_res_blocks |-> SeqArg(<<1, 2, 1>>), norm_num_groups |-> 32,
      latent_channels |-> 4, in_channels |-> 1, out_channels |-> 2, label_nc |-> 3,
      spatial_dims |-> 1, with_decoder_nonlocal_attn |-> FALSE],
     [channels |-> <<32, 32, 64>>, attention_levels |-> <<FALSE, FALSE, FALSE>>,
      num_res_blocks |-> SeqArg(<<1, 0, 1>>), norm_num_groups |-> 16,
      latent_channels |-> 3, in_channels |-> 1, out_channels |-> 1, label_nc |-> 2,
      spatial_dims |-> 1, with_decoder_nonlocal_attn |-> FALSE],
     [channels |-> <<32>>, attention_levels |-> <<TRUE>>,
      num_res_blocks |-> IntArg(1), norm_num_groups |-> 32, latent_channels |-> 3,
      in_channels |-> 2, out_channels |-> 1, label_nc |-> 2, spatial_dims |-> 1,
      with_decoder_nonlocal_attn |-> FALSE]}

Spatials(d) ==
    {Filled(sz, d) : sz \in SpatialSizes} \cup {[i \in 1..d |-> IF i = 1 THEN 8 ELSE 64]}

\* Images x: every batch size and spatial shape for image 1, every image for one
\* shape.
Inputs(n) ==
    {Tensor(<<b, n.in_channels>> \o sp, k) :
        b \in 1..MaxBatch, sp \in Spatials(n.spatial_dims), k \in Images}
    \ {t \in [shape : {<<b, n.in_channels>> \o sp :
                          b \in 1..MaxBatch, sp \in Spatials(n.spatial_dims)},
              data : Images] :
          t.data # 1 /\ (Batch(t) # 1 \/ Spatial(t) # Filled(64, n.spatial_dims))}

\* Segmentations of the batch and spatial size of t.
Segs(n, t) == {Tensor(<<Batch(t), n.label_nc>> \o Spatial(t), id) : id \in SegIds}

\* Latents given directly to decode and sampling.
Latents(n, batches, values) ==
    {Tensor(<<b, n.latent_channels>> \o Filled(2, n.spatial_dims), v) :
        b \in batches, v \in values}

InitRun ==
    /\ args \in RunArgs
    /\ status = SPADEAutoencoderKL(args).status
    /\ net = SPADEAutoencoderKL(args).net
    /\ resblock = NoBlock
    /\ pc = "idle"
    /\ call = NoCall
    /\ locals = NoLocals
    /\ x = NoTensor
    /\ idx = 0
    /\ applied = <<>>
    /\ result = NoResult
    /\ earlier = NoEarlier

Idle == status = "built" /\ pc = "idle"

\* model.encode(t)
CallEncode ==
    /\ Idle
    /\ \E t \in Inputs(net) :
         LET enc == encode(net, t)
         IN  /\ call' = [NoCall EXCEPT !.method = "encode", !.x = t]
             /\ locals' = [NoLocals EXCEPT !.enc = enc]
             /\ result' = [status |-> "returned", out |-> <<enc.z_mu, enc.z_sigma>>]
    /\ UNCHANGED <<args, status, net, resblock, pc, x, idx, applied, earlier>>

\* model.sampling(z_mu, z_sigma)
CallSampling ==
    /\ Idle
    /\ \E z_mu \in Latents(net, {1}, {Fin(-2), Fin(0), Fin(3), PInf, NaN}),
          sg \in {Fin(0), Fin(1), Fin(2)}, eps \in Noise :
         LET z_sigma == Tensor(z_mu.shape, sg)
             z == sampling(z_mu, z_sigma, eps)
         IN  /\ call' = [NoCall EXCEPT !.method = "sampling", !.z_mu = z_mu,
                                       !.z_sigma = z_sigma]
             /\ locals' = [NoLocals EXCEPT !.draws = 1, !.eps = eps, !.z = z]
             /\ result' = [status |-> "returned", out |-> <<z>>]
    /\ UNCHANGED <<args, status, net, resblock, pc, x, idx, applied, earlier>>

\* model.encode_stage_2_inputs(t)
CallEncodeStage2 ==
    /\ Idle
    /\ \E t \in Inputs(net), eps \in Noise :
         LET enc == encode(net, t)
             lat == SampledLatent(enc, eps)
         IN  /\ call' = [NoCall EXCEPT !.method = "encode_stage_2_inputs", !.x = t]
             /\ locals' = [enc |-> enc, draws |-> lat.draws, eps |-> eps, z |-> lat.z]
             /\ result' = [status |-> "returned", out |-> <<lat.z>>]
    /\ UNCHANGED <<args, status, net, resblock, pc, x, idx, applied, earlier>>

\* The head of decode: z = self.post_quant_conv(z), then self.decoder(z, seg)
\* starts its loop.
EnterDecoder(z) ==
    /\ x' = post_quant_conv(z)
    /\ idx' = 1
    /\ applied' = <<>>
    /\ pc' = "decoder"
    /\ result' = NoResult

\* model.decode(z, seg) and its alias model.decode_stage_2_outputs(z, seg)
CallDecode ==
    /\ Idle
    /\ \E z \in Latents(net, 1..MaxBatch, {Fin(1)}), id \in SegIds,
          method \in {"decode", "decode_stage_2_outputs"} :
         /\ call' = [NoCall EXCEPT !.method = method, !.z = z,
                       !.seg = Tensor(<<Batch(z), net.label_nc>>
                                      \o Filled(8, net.spatial_dims), id)]
         /\ locals' = [NoLocals EXCEPT !.z = z]
         /\ EnterDecoder(z)
    /\ UNCHANGED <<args, status, net, resblock, earlier>>

\* model.reconstruct(t, seg)
CallReconstruct ==
    /\ Idle
    /\ \E t \in Inputs(net), eps \in Noise :
         \E sg \in Segs(net, t) :
           LET enc == encode(net, t)
               lat == ReconstructLatent(enc, eps)
           IN  /\ call' = [NoCall EXCEPT !.method = "reconstruct", !.x = t, !.seg = sg]
               /\ locals' = [enc |-> enc, draws |-> lat.draws,
                             eps |-> IF lat.draws > 0 THEN eps ELSE 0, z |-> lat.z]
               /\ EnterDecoder(lat.z)
    /\ UNCHANGED <<args, status, net, resblock, earlier>>

\* model(t, seg)
CallForward ==
    /\ Idle
    /\ \E t \in Inputs(net), eps \in Noise :
         \E sg \in Segs(net, t) :
           LET enc == encode(net, t)
               lat == SampledLatent(enc, eps)
           IN  /\ call' = [NoCall EXCEPT !.method = "forward", !.x = t, !.seg = sg]
               /\ locals' = [enc |-> enc, draws |-> lat.draws, eps |-> eps, z |-> lat.z]
               /\ EnterDecoder(lat.z)
    /\ UNCHANGED <<args, status, net, resblock, earlier>>

\* What the call returns once the decoder has: forward's triple, or the decoded
\* tensor alone.
ReturnValue(method, dec, enc) ==
    IF method = "forward" THEN <<dec, enc.z_mu, enc.z_sigma>> ELSE <<dec>>

\* The probe image: image 1, batch size 1, the largest spatial size.
Probe(n) == Tensor(<<1, n.in_channels>> \o Filled(64, n.spatial_dims), 1)

\* The first finished reconstruct call of the probe image in a run is remembered.
Remember(res) ==
    IF call.method = "reconstruct" /\ call.x = Probe(net) /\ ~earlier.set
    THEN [set |-> TRUE, x |-> call.x, seg |-> call.seg, result |-> res]
    ELSE earlier

\* One iteration of `for block in self.blocks`.
DecoderStep ==
    /\ pc = "decoder"
    /\ idx <= Len(net.blocks)
    /\ ~BlockRaises(net.blocks[idx], x)
    /\ LET block == net.blocks[idx]
           s == IF TakesSeg(block) THEN call.seg.data ELSE 0
           out == BlockCall(idx, block, x, s)
       IN  /\ x' = out
           /\ applied' = Append(applied, [block |-> idx, x |-> x, seg |-> s, out |-> out])
           /\ idx' = idx + 1
    /\ UNCHANGED <<args, status, net, resblock, pc, call, locals, result, earlier>>

\* SPADEDecoder.forward is left: its locals are gone.
LeaveDecoder ==
    /\ pc' = "idle"
    /\ x' = NoTensor
    /\ idx' = 0
    /\ applied' = <<>>

\* A block rejects its input: the exception leaves forward and the call.
DecoderRaise ==
    /\ pc = "decoder"
    /\ idx <= Len(net.blocks)
    /\ BlockRaises(net.blocks[idx], x)
    /\ LET res == [status |-> "RuntimeError", out |-> <<>>]
       IN  /\ result' = res
           /\ earlier' = Remember(res)
    /\ LeaveDecoder
    /\ UNCHANGED <<args, status, net, resblock, call, locals>>

\* `return x`, and the return of the method that called decode.
DecoderReturn ==
    /\ pc = "decoder"
    /\ idx > Len(net.blocks)
    /\ LET res == [status |-> "returned",
                   out |-> ReturnValue(call.method, x, locals.enc)]
       IN  /\ result' = res
           /\ earlier' = Remember(res)
    /\ LeaveDecoder
    /\ UNCHANGED <<args, status, net, resblock, call, locals>>

NextRun ==
    \/ CallEncode
    \/ CallSampling
    \/ CallEncodeStage2
    \/ CallDecode
    \/ CallReconstruct
    \/ CallForward
    \/ DecoderStep
    \/ DecoderRaise
    \/ DecoderReturn

SpecRun == InitRun /\ [][NextRun]_vars

----------------------------------------------------------------------------
(* Claims about construction, checked under Spec. *)

\* The three conditions under which construction must fail, read off the
\* arguments.
BadDivisibility ==
    \E i \in 1..Len(args.channels) : args.channels[i] % args.norm_num_groups # 0
BadAttentionLength == Len(args.channels) # Len(args.attention_levels)
BadResBlocksLength ==
    ~args.num_res_blocks.is_int /\ Len(args.num_res_blocks.seq) # Len(args.channels)

\* C1: construction raises ValueError whenever a channel width is not a multiple
\* of norm_num_groups, or channels and attention_levels differ in length, or a
\* sequence num_res_blocks differs in length from channels; an integer
\* num_res_blocks never fails the length check; the checks come first, so nothing
\* is built when one fails, and a constructed model has three schedules of equal
\* length and every channel width divisible by the group count.
C1_ConstructionValidated ==
    status # "unbuilt" =>
      /\ (BadDivisibility \/ BadAttentionLength \/ BadResBlocksLength)
            => (status = "ValueError" /\ net = NoNet)
      /\ (args.num_res_blocks.is_int /\ ~BadDivisibility /\ ~BadAttentionLength)
            => status # "ValueError"
      /\ status = "built" =>
            /\ Len(net.attention_levels) = Len(net.channels)
            /\ Len(net.num_res_blocks) = Len(net.channels)
            /\ \A i \in 1..Len(net.channels) : net.channels[i] % net.norm_num_groups = 0
            /\ Len(net.blocks) > 0

\* C1 witness: a construction that failed on the length of num_res_blocks alone,
\* as num_res_blocks=(1,1) with channels=(32,64,64).
C1_Witness ==
    /\ status = "ValueError"
    /\ args.channels = <<32, 64, 64>>
    /\ args.num_res_blocks = SeqArg(<<1, 1>>)
    /\ ~BadDivisibility
    /\ ~BadAttentionLength

\* The positions of the upsampling stages in the decoder's block list.
UpsampleIdx ==
    SelectSeq([k \in 1..Len(net.blocks) |-> k],
              LAMBDA k : net.blocks[k].type = "Upsample")

NumLevels == Len(net.channels)

\* Level i (1-based) of the decoder ends with its upsampling stage, the last
\* level with the final GroupNorm; it starts after the previous level's end (the
\* first level after the initial convolution).
LevelEnd(i) == IF i < NumLevels THEN UpsampleIdx[i] ELSE Len(net.blocks) - 1
LevelStart(i) == IF i = 1 THEN 2 ELSE UpsampleIdx[i - 1] + 1

\* The width that leaves level i: the declared input width of the stage ending it.
WidthLeaving(i) == net.blocks[LevelEnd(i)].in_channels

\* channels[L-1-i] in the 0-based indices of the claim.
ScheduleWidth(i) == net.channels[NumLevels + 1 - i]

\* The width level i hands on: its own schedule width when it has a res block,
\* the schedule width of the level before it (its own for the first level) when
\* it has none.
WidthHandedOn(i) ==
    IF net.num_res_blocks[NumLevels + 1 - i] > 0 \/ i = 1 THEN ScheduleWidth(i)
    ELSE ScheduleWidth(i - 1)

\* C7 as stated: the width of level i of the decoder is channels[L-1-i] and an
\* upsampling stage follows every level except the last.
C7_WidthsReversed ==
    status = "built" =>
      /\ Len(UpsampleIdx) = NumLevels - 1
      /\ \A i \in 1..NumLevels : WidthLeaving(i) = ScheduleWidth(i)

\* C7 amended: an upsampling stage follows every level except the last, every
\* res block of level i has output width channels[L-1-i], and the stage that ends
\* level i (its upsampling stage, or the final GroupNorm) has width channels[L-1-i]
\* when the level has a res block and the width of the level before it,
\* channels[L-i], when it has none; so with a res block at every level the widths
\* are the reversed schedule, and the default schedule [32,64,64,64] gives
\* 64,64,64,32.
C7_WidthsReversedWhereRealised ==
    status = "built" =>
      /\ Len(UpsampleIdx) = NumLevels - 1
      /\ \A i \in 1..NumLevels :
            /\ \A k \in LevelStart(i)..(LevelEnd(i) - 1) :
                  net.blocks[k].type = "SPADEResBlock"
                      => net.blocks[k].out_channels = ScheduleWidth(i)
            /\ WidthLeaving(i) = WidthHandedOn(i)
            /\ net.num_res_blocks[NumLevels + 1 - i] > 0
                  => WidthLeaving(i) = ScheduleWidth(i)
      /\ net.channels = <<32, 64, 64, 64>> /\ (\A j \in 1..4 : net.num_res_blocks[j] > 0)
            => [i \in 1..4 |-> WidthLeaving(i)] = <<64, 64, 64, 32>>

\* C7 witness: the decoder of the default schedule [32,64,64,64] is built.
C7_Witness ==
    /\ status = "built"
    /\ net.channels = <<32, 64, 64, 64>>
    /\ net.num_res_blocks = <<2, 2, 2, 2>>
    /\ Len(UpsampleIdx) = 3

\* C8: a SPADEResBlock constructed with a zero or absent out_channels is the
\* block constructed with out_channels = in_channels: identity shortcut, both
\* convolutions and both normalisations at width in_channels.
C8_OutChannelsFallback ==
    (resblock.built /\ resblock.out_channels \in {None, 0}) =>
      /\ resblock.block.out_channels = resblock.in_channels
      /\ resblock.block.nin_shortcut = <<>>
      /\ resblock.block.conv1 = <<resblock.in_channels, resblock.in_channels>>
      /\ resblock.block.conv2 = <<resblock.in_channels, resblock.in_channels>>
      /\ resblock.block.norm1_nc = resblock.in_channels
      /\ resblock.block.norm2_nc = resblock.in_channels

\* C10: the block list of the decoder of every constructed model is
\* channel-consistent: the first block takes latent_channels, every later block's
\* declared input width is the declared output width of the block before it, and
\* the last block outputs out_channels.
C10_ChannelConsistent ==
    status = "built" =>
      /\ net.blocks[1].in_channels = net.latent_channels
      /\ \A k \in 2..Len(net.blocks) :
            net.blocks[k].in_channels = net.blocks[k - 1].out_channels
      /\ net.blocks[Len(net.blocks)].out_channels = net.out_channels

----------------------------------------------------------------------------
(* Claims about the calls, checked under SpecRun. *)

\* C2: reconstruct(x, seg) returns a tensor of the batch size and spatial shape
\* of x with out_channels channels, for every model and every x.
C2_ReconstructKeepsShape ==
    (call.method = "reconstruct" /\ result.status = "returned") =>
        result.out[1].shape = <<Batch(call.x), net.out_channels>> \o Spatial(call.x)

\* The end-to-end scenario: the two-level model without attention, x of shape
\* (1,1,64,64) and seg of shape (1,2,64,64) given to forward.
ScenarioCall ==
    /\ net.channels = <<32, 64>>
    /\ net.latent_channels = 3
    /\ call.method = "forward"
    /\ call.x.shape = <<1, 1, 64, 64>>
    /\ call.seg.shape = <<1, 2, 64, 64>>

\* C3 as stated: in the scenario forward returns a reconstruction of shape
\* (1,1,64,64) and a mean and a sigma of shape (1,3,16,16).
C3_ScenarioShapes16 ==
    (ScenarioCall /\ result.status # "none") =>
        /\ result.status = "returned"
        /\ result.out[1].shape = <<1, 1, 64, 64>>
        /\ result.out[2].shape = <<1, 3, 16, 16>>
        /\ result.out[3].shape = <<1, 3, 16, 16>>

\* C3 amended: in the scenario forward returns a reconstruction of shape
\* (1,1,64,64) and a mean and a sigma of shape (1,3,32,32).
C3_ScenarioShapes32 ==
    (ScenarioCall /\ result.status # "none") =>
        /\ result.status = "returned"
        /\ result.out[1].shape = <<1, 1, 64, 64>>
        /\ result.out[2].shape = <<1, 3, 32, 32>>
        /\ result.out[3].shape = <<1, 3, 32, 32>>

\* C3 witness: forward has returned in the scenario.
C3_Witness == ScenarioCall /\ result.status = "returned" /\ Len(result.out) = 3

\* sigma is a strictly positive finite number: e * exp(lv / 2) with e > 0 and the
\* exponential in range.
PositiveFinite(v) ==
    v.k = "fin" /\ v.m = 0 /\ v.e > 0 /\ v.lv >= Float32ExpMin /\ v.lv <= Float32ExpMax

\* What the clamp must make of the raw log-variance v.
ClampedAsClaimed(v, c) ==
    /\ (v.k = "ninf" \/ (v.k = "fin" /\ v.m < -30)) => c = Fin(-30)
    /\ (v.k = "pinf" \/ (v.k = "fin" /\ v.m > 20)) => c = Fin(20)
    /\ (v.k = "fin" /\ v.m >= -30 /\ v.m <= 20) => c = v

\* C4 as stated: encode clamps the raw log-variance to [-30, 20] before the
\* exponential, and the sigma it returns is always strictly positive and finite.
C4_SigmaAlwaysPositiveFinite ==
    locals.enc # NoEnc =>
        /\ ClampedAsClaimed(locals.enc.raw_log_var.data, locals.enc.z_log_var.data)
        /\ PositiveFinite(locals.enc.z_sigma.data)

\* C4 amended: encode clamps the raw log-variance to [-30, 20] before the
\* exponential, and whenever the raw log-variance is not NaN the sigma it returns
\* is exp(clamped / 2), strictly positive and finite.
C4_SigmaPositiveFiniteUnlessNaN ==
    locals.enc # NoEnc =>
        /\ ClampedAsClaimed(locals.enc.raw_log_var.data, locals.enc.z_log_var.data)
        /\ locals.enc.raw_log_var.data.k # "nan" =>
              /\ PositiveFinite(locals.enc.z_sigma.data)
              /\ locals.enc.z_sigma.data.e = 1
              /\ locals.enc.z_sigma.data.lv = locals.enc.z_log_var.data.m

\* C4 witness: encode has returned for an image whose raw log-variance, 400, would
\* overflow the exponential unclamped.
C4_Witness ==
    /\ call.method = "encode"
    /\ result.status = "returned"
    /\ locals.enc.raw_log_var.data = Fin(400)
    /\ result.out[2] = locals.enc.z_sigma

\* C5: sampling(mean, sigma) with sigma zero returns exactly mean, whatever the
\* noise drawn.
C5_ZeroSigmaReturnsMean ==
    (call.method = "sampling" /\ call.z_sigma.data = Fin(0) /\ result.status = "returned")
        => result.out = <<call.z_mu>>

\* C5 witness: sampling has returned for a zero sigma and a non-zero noise draw.
C5_Witness ==
    /\ call.method = "sampling"
    /\ call.z_sigma.data = Fin(0)
    /\ call.z_mu.data = Fin(3)
    /\ locals.eps # 0
    /\ result.status = "returned"

RECURSIVE Latent(_)
\* The latent a decoded tensor was decoded from.
Latent(d) == IF d.f = 0 THEN d.of ELSE Latent(d.of)

\* C6: reconstruct decodes the mean of encode(x), draws no noise and does not use
\* sigma, so a second reconstruct of the same x and seg returns what the first
\* did whatever the noise source yields; forward decodes mean + noise * sigma and
\* returns the mean and sigma of encode(x) beside the reconstruction.
C6_ReconstructDeterministic ==
    /\ (call.method = "reconstruct" /\ result.status # "none") =>
          /\ locals.draws = 0
          /\ locals.z = encode(net, call.x).z_mu
          /\ result.status = "returned" => Latent(result.out[1].data) = ImageMu[call.x.data]
          /\ (earlier.set /\ earlier.x = call.x /\ earlier.seg = call.seg)
                => result = earlier.result
    /\ (call.method = "forward" /\ result.status = "returned") =>
          /\ locals.draws = 1
          /\ locals.z.data = Add(locals.enc.z_mu.data,
                                 Mul(locals.eps, locals.enc.z_sigma.data))
          /\ Latent(result.out[1].data) = locals.z.data
          /\ result.out[2] = encode(net, call.x).z_mu
          /\ result.out[3] = encode(net, call.x).z_sigma

\* C6 witness: a second reconstruct of the remembered image and segmentation is
\* about to return.
C6_Witness ==
    /\ call.method = "reconstruct"
    /\ earlier.set
    /\ earlier.x = call.x
    /\ earlier.seg = call.seg
    /\ earlier.result.status = "returned"
    /\ pc = "decoder"
    /\ idx > Len(net.blocks)

RECURSIVE AppliedInOrder(_, _)
\* d is block k applied to block k-1 applied to ... the post-quantised latent,
\* each res block with the segmentation of the call and no other block with any.
AppliedInOrder(d, k) ==
    /\ d.f = k
    /\ IF k = 0 THEN d.seg = 0
       ELSE /\ d.seg = (IF net.blocks[k].type = "SPADEResBlock" THEN call.seg.data ELSE 0)
            /\ AppliedInOrder(d.of, k - 1)

\* C9: SPADEDecoder.forward applies the blocks once each in construction order,
\* each to the output of the one before, a SPADEResBlock with seg and every other
\* block with x alone, the seg being that of the call throughout.
C9_DispatchInOrder ==
    /\ pc = "decoder" =>
          /\ Len(applied) = idx - 1
          /\ \A k \in 1..Len(applied) :
                /\ applied[k].block = k
                /\ applied[k].x = (IF k = 1 THEN post_quant_conv(locals.z)
                                   ELSE applied[k - 1].out)
                /\ applied[k].seg = (IF net.blocks[k].type = "SPADEResBlock"
                                     THEN call.seg.data ELSE 0)
          /\ x = (IF idx = 1 THEN post_quant_conv(locals.z) ELSE applied[idx - 1].out)
          /\ AppliedInOrder(x.data, idx - 1)
    /\ (result.status = "returned" /\ call.method \in {"decode", "decode_stage_2_outputs",
                                                       "reconstruct", "forward"})
          => AppliedInOrder(result.out[1].data, Len(net.blocks))

\* C9 witness: forward's loop has gone through a list that holds res blocks, an
\* attention block and upsampling stages.
C9_Witness ==
    /\ pc = "decoder"
    /\ idx > Len(net.blocks)
    /\ Len(applied) = Len(net.blocks)
    /\ \E k \in 1..Len(applied) :
          net.blocks[k].type = "SpatialAttentionBlock" /\ applied[k].seg = 0
    /\ \E k \in 1..Len(applied) :
          net.blocks[k].type = "SPADEResBlock" /\ applied[k].seg = call.seg.data
    /\ \E k \in 1..Len(applied) : net.blocks[k].type = "Upsample"

====
